---- MODULE Spec2Model ----
(***************************************************************************)
(* Model of src/main.py: the MainWindow of the speech <-> text tool.       *)
(*                                                                         *)
(*  - the capture side: start_recording / stop_recording, the background   *)
(*    listener thread that recognizer.listen_in_background starts (it      *)
(*    opens the microphone stream, listens, and calls `callback` itself),  *)
(*    the level meter (start_vu_meter / stop_vu_meter / update_vu_level),  *)
(*    and the history deque that the callback and the UI thread append to; *)
(*  - the synthesis side: play_tts, the TTSWorker thread and its signals;  *)
(*  - the pure function speed_change.                                      *)
(*                                                                         *)
(* Threads.  The UI thread runs one handler at a time (ui_pc tells where   *)
(* it is inside a handler that other threads can interleave with).  Each   *)
(* listener thread runs `callback` itself, statement by statement, with    *)
(* no lock: a step of a listener thread is one statement of the callback   *)
(* or of add_history, and so is a step of the UI thread in add_history.    *)
(* Each TTSWorker thread is one step per emitted signal; the signals       *)
(* reach their slots through the UI thread's queue.                        *)
(*                                                                         *)
(* Modal boxes.  A handler that shows a message box or a file dialog runs  *)
(* the event loop inside it; the user cannot click the window meanwhile,   *)
(* but queued signals and timer ticks are delivered.  Where the handler    *)
(* does nothing after the box (the warnings of start_recording, play_tts,  *)
(* copy_stt_text, export_texts) or reads no program state before it (the   *)
(* file dialogs of play_tts and export_texts) the deliveries inside the    *)
(* box are the same as deliveries after, or before, the handler, and the   *)
(* handler is one step.  on_tts_error changes the window after its box:    *)
(* it is two steps, with ui_pc = "error_box" in between.                   *)
(*                                                                         *)
(* A crash of the process ends a behaviour; every prefix of a behaviour of *)
(* the model is a behaviour too, so crashes need no step of their own.     *)
(***************************************************************************)
EXTENDS Integers, Sequences, FiniteSets, TLC

(* ------------------------------ bounds -------------------------------- *)
MaxSessions == 2      \* listener threads started in one run
MaxUtt == 2           \* utterances handed to the callback in one run
MaxClock == 1         \* seconds that pass on the wall clock in one run
MaxWorkers == 2       \* TTSWorker threads started in one run
MaxCopies == 1        \* clicks on Copy in one run

(* ------------------------- program constants -------------------------- *)
HistoryMaxLen == 10   \* deque(maxlen=10)
NoMic == -1           \* mic_combo.currentData() is None
VuDivisor == 300      \* int(rms / 300)
VuMax == 100          \* min(100, ...)
VuUnset == -1         \* QProgressBar.value() before any setValue

VARIABLES
    \* capture session (UI thread)
    stt_stop,       \* 0 = None, else the id of the listener thread whose stopper is held
    btn_start,      \* btn_start.isEnabled()
    btn_stop,       \* btn_stop.isEnabled()
    stt_status,     \* stt_status.text()
    stt_progress,   \* stt_progress.isVisible()
    dialog,         \* the message box the last handler call showed ("none" if none)
    \* listener threads, one per successful start_recording
    nsess,          \* number of listener threads created so far
    pc,             \* thread id -> "none" | "start" | "listen" | "callback" | "append"
                    \*              | "add_history" | "appendleft" | "clear" | "additems"
                    \*              | "done" | "dead"
    running,        \* thread id -> running[0] of listen_in_background
    mic_open,       \* thread id -> the Microphone stream of this thread is open
    cur,            \* thread id -> utterance being recognized (0 when none)
    tres,           \* thread id -> what recognize_google gave the running callback
    tstamp,         \* thread id -> `stamp` of the add_history call the thread is in
    \* level meter
    vu_audio,       \* self.vu_audio is not None
    vu_stream,      \* self.vu_stream is not None (an open pyaudio stream)
    vu_timer,       \* vu_timer.isActive()
    vu_level,       \* vu_meter.value()
    \* results
    stt_text,       \* paragraphs of the stt_text widget
    history,        \* self.history, newest first
    history_list,   \* items of the history_list widget, top first
    now,            \* wall clock
    \* the UI thread inside a handler
    ui_pc,          \* "idle" | "appendleft" | "clear" | "additems" (add_history is
                    \*        before that line) | "error_box" (on_tts_error shows its box)
    ui_line,        \* the line add_history is about to appendleft (<<>> when none)
    \* history variables of the verification (not program state)
    log,            \* every entry ever appended to self.history, oldest first
    utts,           \* utterance id -> record of the utterance handed to the callback
    \* synthesis (UI thread and TTSWorker threads)
    btn_play,       \* btn_play.isEnabled()
    btn_save_mp3,   \* btn_save_mp3.isEnabled()
    tts_status,     \* tts_status.text()
    tts_progress,   \* tts_progress.isVisible()
    should_play,    \* self.should_play
    workers,        \* worker id -> record of a TTSWorker that was started
    ui_queue,       \* signals emitted by workers and not yet delivered to their slots
    playing,        \* id of the worker whose audio sound_effect was last told to play (0: none)
    \* speed_change, applied to a segment and then to its result
    sp_orig,        \* frame rate of the segment speed_change is first given
    sp_seg,         \* the segment: [frame_rate, empty (no audio data), ok (no call raised)]
    sp_factor,      \* the factor <<num, den>>: the float nearest to num/den
    sp_new_sr,      \* new_sr of the last call
    sp_calls        \* calls made so far

capVars == <<stt_stop, btn_start, btn_stop, stt_status, stt_progress, dialog,
             nsess, pc, running, mic_open, cur, tres, tstamp>>
vuVars == <<vu_audio, vu_stream, vu_timer, vu_level>>
resVars == <<stt_text, history, history_list, now, log, utts>>
uiVars == <<ui_pc, ui_line>>
ttsVars == <<btn_play, btn_save_mp3, tts_status, tts_progress, should_play,
             workers, ui_queue, playing>>
spVars == <<sp_orig, sp_seg, sp_factor, sp_new_sr, sp_calls>>
vars == <<capVars, vuVars, resVars, uiVars, ttsVars, spVars>>

Threads == 1..MaxSessions

\* The UI thread is in its event loop, not inside a handler.
UiIdle == ui_pc = "idle"

(* ------------------------------ helpers ------------------------------- *)
Take(s, n) == SubSeq(s, 1, IF Len(s) < n THEN Len(s) ELSE n)

Min(a, b) == IF a < b THEN a ELSE b

\* deque(maxlen=HistoryMaxLen).appendleft(x): the new element goes in front and
\* the rightmost element is discarded when the deque is full.
appendleft(d, x) == Take(<<x>> \o d, HistoryMaxLen)

\* One history line.  The code formats "[HH:MM:SS] entry" with the time read
\* at the start of add_history; `utt` is a verification field (0 for entries
\* that come from no utterance) and is not part of the line.
Line(stamp, kind, text, utt) ==
    [stamp |-> stamp, kind |-> kind, text |-> text, utt |-> utt]

\* The characters str.strip() removes (str.isspace): those with an escape in
\* this notation, and the others named by their code point.
Whitespace ==
    {" ", "\t", "\n", "\r", "\f", "U+000B", "U+001C", "U+001D", "U+001E", "U+001F",
     "U+0085", "U+00A0", "U+1680", "U+2000", "U+2001", "U+2002", "U+2003",
     "U+2004", "U+2005", "U+2006", "U+2007", "U+2008", "U+2009", "U+200A",
     "U+2028", "U+2029", "U+202F", "U+205F", "U+3000"}

IsSpace(c) == c \in Whitespace

(* ------------------------- the recognition backend --------------------- *)
Transcripts == {"hello"}
Messages == {"boom"}

\* What recognizer.recognize_google does for one utterance: it returns a
\* transcript, or raises UnknownValueError, RequestError or something else.
Results ==
    [exc : {"none"}, text : Transcripts]
      \cup [exc : {"UnknownValueError", "RequestError"}, text : {""}]
      \cup [exc : {"Other"}, text : Messages]

NoResult == [exc |-> "pending", text |-> ""]

(* ----------------------------- level meter ----------------------------- *)
\* A stop_vu_meter that does its work only when a stream is open.
stop_vu_meter_only_if_stream ==
    IF vu_stream
    THEN /\ vu_timer' = FALSE
         /\ vu_stream' = FALSE
         /\ vu_audio' = FALSE
         /\ vu_level' = 0
    ELSE UNCHANGED vuVars

\* stop_vu_meter(): stop the timer, close and forget the stream, terminate and
\* forget the PyAudio instance, show level 0.  Failures of close/terminate are
\* swallowed, the fields are cleared either way.
stop_vu_meter ==
    /\ vu_timer' = FALSE
    /\ vu_stream' = FALSE
    /\ vu_audio' = FALSE
    /\ vu_level' = 0

\* start_vu_meter(device_index): stop_vu_meter() first; then, unless the index
\* is None, create a PyAudio instance and open an input stream of its own on
\* the device and start the timer.  Any exception on the way leaves what was
\* assigned so far and sets the level to 0.
start_vu_meter(device_index, outcome) ==
    IF device_index = NoMic
    THEN stop_vu_meter
    ELSE /\ vu_audio' = (outcome # "init_fail")
         /\ vu_stream' = (outcome = "ok")
         /\ vu_timer' = (outcome = "ok")
         /\ vu_level' = 0


(* --------------------------- capture session --------------------------- *)
\* start_recording(): mic_index is what the combo box holds, ctor_ok whether
\* sr.Microphone(device_index=...) could be constructed, vu what happens when
\* the level meter opens its stream.
start_recording(mic_index, ctor_ok, vu) ==
    /\ UNCHANGED <<uiVars, ttsVars, spVars>>
    /\ IF stt_stop # 0
       THEN /\ dialog' = "none"
            /\ UNCHANGED <<stt_stop, btn_start, btn_stop, stt_status, stt_progress,
                           nsess, pc, running, mic_open, cur, tres, tstamp,
                           vuVars, resVars>>
       ELSE IF mic_index = NoMic
       THEN /\ dialog' = "no_active_mic"
            /\ UNCHANGED <<stt_stop, btn_start, btn_stop, stt_status, stt_progress,
                           nsess, pc, running, mic_open, cur, tres, tstamp,
                           vuVars, resVars>>
       ELSE IF ~ctor_ok
       THEN /\ dialog' = "mic_init_error"
            /\ UNCHANGED <<stt_stop, btn_start, btn_stop, stt_status, stt_progress,
                           nsess, pc, running, mic_open, cur, tres, tstamp,
                           vuVars, resVars>>
       ELSE /\ nsess < MaxSessions
            /\ dialog' = "none"
            /\ stt_status' = "listening"
            /\ stt_progress' = TRUE
            /\ btn_start' = FALSE
            /\ btn_stop' = TRUE
            /\ start_vu_meter(mic_index, vu)
            \* listen_in_background: a new daemon thread, running[0] = True; the
            \* returned stopper is kept in stt_stop
            /\ nsess' = nsess + 1
            /\ pc' = [pc EXCEPT ![nsess + 1] = "start"]
            /\ running' = [running EXCEPT ![nsess + 1] = TRUE]
            /\ stt_stop' = nsess + 1
            /\ UNCHANGED <<mic_open, cur, tres, tstamp, resVars>>

\* The effect of stt_stop(wait_for_stop=False): running[0] = False, no join.
stopper(r) == [r EXCEPT ![stt_stop] = FALSE]

\* stop_recording()
stop_recording ==
    /\ running' = IF stt_stop # 0 THEN stopper(running) ELSE running
    /\ stt_stop' = 0
    /\ stt_status' = "stopped"
    /\ stt_progress' = FALSE
    /\ btn_start' = TRUE
    /\ btn_stop' = FALSE
    /\ stop_vu_meter
    /\ dialog' = "none"
    \* verification field: these requests were in flight when stop was called
    /\ utts' = [u \in DOMAIN utts |->
                  IF ~utts[u].done THEN [utts[u] EXCEPT !.stopped = TRUE] ELSE utts[u]]
    /\ UNCHANGED <<nsess, pc, mic_open, cur, tres, tstamp,
                   stt_text, history, history_list, now, log>>
    /\ UNCHANGED <<uiVars, ttsVars, spVars>>

(* --------------------------- listener thread --------------------------- *)
\* threaded_listen of listen_in_background, entered by `with source as s`:
\* Microphone.__enter__ opens the microphone stream in the listener thread.
\* When the open fails the exception ends the thread; nothing reports it to
\* the UI thread, which keeps the stopper in stt_stop.
ThreadOpen(s, ok) ==
    /\ pc[s] = "start"
    /\ pc' = [pc EXCEPT ![s] = IF ok THEN "listen" ELSE "dead"]
    /\ mic_open' = [mic_open EXCEPT ![s] = ok]
    /\ UNCHANGED <<stt_stop, btn_start, btn_stop, stt_status, stt_progress, dialog,
                   nsess, running, cur, tres, tstamp, vuVars, resVars>>
    /\ UNCHANGED <<uiVars, ttsVars, spVars>>

\* listen() returned a phrase while running[0] is still True: the thread calls
\* callback(self, audio) itself and is inside it until it returns.
ThreadListen(s) ==
    /\ pc[s] = "listen"
    /\ running[s]
    /\ Len(utts) < MaxUtt
    /\ utts' = Append(utts, [sess |-> s, started_at |-> now, done |-> FALSE,
                             exc |-> "pending", answered_at |-> 0,
                             stopped |-> FALSE])
    /\ cur' = [cur EXCEPT ![s] = Len(utts) + 1]
    /\ pc' = [pc EXCEPT ![s] = "callback"]
    /\ UNCHANGED <<stt_stop, btn_start, btn_stop, stt_status, stt_progress, dialog,
                   nsess, running, mic_open, tres, tstamp, vuVars,
                   stt_text, history, history_list, now, log>>
    /\ UNCHANGED <<uiVars, ttsVars, spVars>>

\* `while running[0]` is found False (a phrase heard meanwhile is not handed to
\* the callback): the with-block ends, Microphone.__exit__ closes the stream.
ThreadExit(s) ==
    /\ pc[s] = "listen"
    /\ ~running[s]
    /\ pc' = [pc EXCEPT ![s] = "done"]
    /\ mic_open' = [mic_open EXCEPT ![s] = FALSE]
    /\ UNCHANGED <<stt_stop, btn_start, btn_stop, stt_status, stt_progress, dialog,
                   nsess, running, cur, tres, tstamp, vuVars, resVars>>
    /\ UNCHANGED <<uiVars, ttsVars, spVars>>

(* ------------------- callback, in the listener thread ------------------- *)
\* callback without its `except sr.RequestError` clause: the error is caught by
\* the last clause.
callback_no_request_clause(res) ==
    IF res.exc = "none" THEN [kind |-> "Recognized", text |-> res.text]
    ELSE IF res.exc = "UnknownValueError" THEN [kind |-> "Inaudible", text |-> ""]
    ELSE [kind |-> "Failed", text |-> res.text]

\* callback(_, audio): the entry its try/except chain passes to add_history
\* when recognize_google gave `res`.
callback(res) ==
    IF res.exc = "none" THEN [kind |-> "Recognized", text |-> res.text]
    ELSE IF res.exc = "UnknownValueError" THEN [kind |-> "Inaudible", text |-> ""]
    ELSE IF res.exc = "RequestError" THEN [kind |-> "ServiceUnavailable", text |-> ""]
    ELSE [kind |-> "Failed", text |-> res.text]

\* Line 281: recognize_google answers thread s after `elapsed` seconds, with a
\* transcript or an exception.  running[0] is not consulted in the callback.
Recognize(s, res, elapsed) ==
    /\ pc[s] = "callback"
    /\ now + elapsed <= MaxClock
    /\ now' = now + elapsed
    /\ tres' = [tres EXCEPT ![s] = res]
    /\ pc' = [pc EXCEPT ![s] = IF res.exc = "none" THEN "append" ELSE "add_history"]
    /\ utts' = [utts EXCEPT ![cur[s]].exc = res.exc,
                            ![cur[s]].answered_at = now + elapsed]
    /\ UNCHANGED <<stt_stop, btn_start, btn_stop, stt_status, stt_progress, dialog,
                   nsess, running, mic_open, cur, tstamp, vuVars,
                   stt_text, history, history_list, log>>
    /\ UNCHANGED <<uiVars, ttsVars, spVars>>

\* Line 282: self.stt_text.appendPlainText(text), called by the listener
\* thread.  Qt defines the calls of a widget in the GUI thread only (widgets
\* are not reentrant, and the GUI thread goes on using this one during the
\* call): the transcript becomes a new paragraph of the widget (shown), which
\* is what the call does in the GUI thread, or the document is left without
\* it.
AppendPlainText(s, shown) ==
    /\ pc[s] = "append"
    /\ stt_text' = IF shown THEN Append(stt_text, tres[s].text) ELSE stt_text
    /\ pc' = [pc EXCEPT ![s] = "add_history"]
    /\ UNCHANGED <<stt_stop, btn_start, btn_stop, stt_status, stt_progress, dialog,
                   nsess, running, mic_open, cur, tres, tstamp, vuVars,
                   history, history_list, now, log, utts>>
    /\ UNCHANGED <<uiVars, ttsVars, spVars>>

\* Lines 283-289 and 365-366: the callback calls add_history with its entry,
\* and add_history reads the clock.
ThreadStamp(s) ==
    /\ pc[s] = "add_history"
    /\ tstamp' = [tstamp EXCEPT ![s] = now]
    /\ pc' = [pc EXCEPT ![s] = "appendleft"]
    /\ UNCHANGED <<stt_stop, btn_start, btn_stop, stt_status, stt_progress, dialog,
                   nsess, running, mic_open, cur, tres, vuVars, resVars>>
    /\ UNCHANGED <<uiVars, ttsVars, spVars>>

\* Line 367 with the entry dropped once the session has been stopped.
ThreadAppendLeft_dropped_after_stop(s) ==
    /\ pc[s] = "appendleft"
    /\ LET line == Line(tstamp[s], callback(tres[s]).kind, callback(tres[s]).text, cur[s])
       IN IF running[s]
          THEN /\ history' = appendleft(history, line)
               /\ log' = Append(log, line)
          ELSE UNCHANGED <<history, log>>
    /\ utts' = [utts EXCEPT ![cur[s]].done = TRUE]
    /\ pc' = [pc EXCEPT ![s] = "clear"]
    /\ UNCHANGED <<stt_stop, btn_start, btn_stop, stt_status, stt_progress, dialog,
                   nsess, running, mic_open, cur, tres, tstamp, vuVars,
                   stt_text, history_list, now>>
    /\ UNCHANGED <<uiVars, ttsVars, spVars>>

\* Line 367 in the listener thread: self.history.appendleft(line).  From here
\* on the outcome of the utterance is in self.history.
ThreadAppendLeft(s) ==
    /\ pc[s] = "appendleft"
    /\ LET line == Line(tstamp[s], callback(tres[s]).kind, callback(tres[s]).text, cur[s])
       IN /\ history' = appendleft(history, line)
          /\ log' = Append(log, line)
    /\ utts' = [utts EXCEPT ![cur[s]].done = TRUE]
    /\ pc' = [pc EXCEPT ![s] = "clear"]
    /\ UNCHANGED <<stt_stop, btn_start, btn_stop, stt_status, stt_progress, dialog,
                   nsess, running, mic_open, cur, tres, tstamp, vuVars,
                   stt_text, history_list, now>>
    /\ UNCHANGED <<uiVars, ttsVars, spVars>>

\* Line 368 in the listener thread: self.history_list.clear(), a widget call
\* outside the GUI thread: the list is emptied (effect), which is what the call
\* does in the GUI thread, or it keeps its items.
ThreadClear(s, effect) ==
    /\ pc[s] = "clear"
    /\ history_list' = IF effect THEN <<>> ELSE history_list
    /\ pc' = [pc EXCEPT ![s] = "additems"]
    /\ UNCHANGED <<stt_stop, btn_start, btn_stop, stt_status, stt_progress, dialog,
                   nsess, running, mic_open, cur, tres, tstamp, vuVars,
                   stt_text, history, now, log, utts>>
    /\ UNCHANGED <<uiVars, ttsVars, spVars>>

\* Line 369 in the listener thread: self.history_list.addItems(self.history),
\* a widget call outside the GUI thread: the items of the deque as it is now
\* are added below those the list holds (effect), which is what the call does
\* in the GUI thread, or they are not.  Then add_history and the callback
\* return, and the thread is back in its loop.
ThreadAddItems(s, effect) ==
    /\ pc[s] = "additems"
    /\ history_list' = IF effect THEN history_list \o history ELSE history_list
    /\ cur' = [cur EXCEPT ![s] = 0]
    /\ tres' = [tres EXCEPT ![s] = NoResult]
    /\ tstamp' = [tstamp EXCEPT ![s] = 0]
    /\ pc' = [pc EXCEPT ![s] = "listen"]
    /\ UNCHANGED <<stt_stop, btn_start, btn_stop, stt_status, stt_progress, dialog,
                   nsess, running, mic_open, vuVars,
                   stt_text, history, now, log, utts>>
    /\ UNCHANGED <<uiVars, ttsVars, spVars>>
(* ------------------------------ UI thread ------------------------------ *)
\* The event loop runs: at top level, or inside the box of on_tts_error.
UiLoop == ui_pc \in {"idle", "error_box"}

UiEntries == Cardinality({i \in 1..Len(log) : log[i].utt = 0})

\* Lines 365-366 in the UI thread: add_history reads the clock and formats
\* the line; the listener threads run before it goes on to each next line.
add_history(kind, text) ==
    /\ ui_line' = Line(now, kind, text, 0)
    /\ ui_pc' = "appendleft"

\* Line 367 in the UI thread: self.history.appendleft(line).
UiAppendLeft ==
    /\ ui_pc = "appendleft"
    /\ history' = appendleft(history, ui_line)
    /\ log' = Append(log, ui_line)
    /\ ui_pc' = "clear"
    /\ ui_line' = <<>>
    /\ UNCHANGED <<capVars, vuVars, stt_text, history_list, now, utts, ttsVars, spVars>>

\* Line 368 in the UI thread: self.history_list.clear().
UiClear ==
    /\ ui_pc = "clear"
    /\ history_list' = <<>>
    /\ ui_pc' = "additems"
    /\ UNCHANGED <<capVars, vuVars, stt_text, history, now, log, utts, ui_line,
                   ttsVars, spVars>>

\* Line 369 in the UI thread: self.history_list.addItems(self.history), below
\* what a listener thread may have added since the clear; add_history and
\* the handler that called it return.
UiAddItems ==
    /\ ui_pc = "additems"
    /\ history_list' = history_list \o history
    /\ ui_pc' = "idle"
    /\ UNCHANGED <<capVars, vuVars, stt_text, history, now, log, utts, ui_line,
                   ttsVars, spVars>>

\* Paragraphs that str.strip() removes entirely: empty, or one whitespace
\* character.
BlankParagraphs == {""} \cup Whitespace

\* self.stt_text.toPlainText().strip() is empty.
SttBlank == \A i \in 1..Len(stt_text) : stt_text[i] \in BlankParagraphs

\* copy_stt_text(): nothing to copy shows an information box; otherwise the
\* text goes to the clipboard and add_history is called.
copy_stt_text ==
    /\ UNCHANGED <<stt_stop, btn_start, btn_stop, stt_status, stt_progress,
                   nsess, pc, running, mic_open, cur, tres, tstamp, vuVars,
                   resVars, ttsVars, spVars>>
    /\ IF SttBlank
       THEN /\ dialog' = "nothing_to_copy"
            /\ UNCHANGED uiVars
       ELSE /\ dialog' = "none"
            /\ add_history("Copied", "")

\* export_texts(): target_chosen is whether the file dialog returned a path,
\* written whether the file could be written (the loop over self.history
\* raises when a listener thread appends to the deque meanwhile, too).
export_texts(target_chosen, written) ==
    /\ dialog' = IF ~target_chosen THEN "none"
                 ELSE IF written THEN "export_ok" ELSE "export_error"
    /\ UNCHANGED <<stt_stop, btn_start, btn_stop, stt_status, stt_progress,
                   nsess, pc, running, mic_open, cur, tres, tstamp, vuVars,
                   resVars, uiVars, ttsVars, spVars>>

\* What the user can make of the stt_text widget, which is editable.
Edits == {<<" ">>, <<"note">>}

\* The user edits the stt_text widget.
EditSttText(t) ==
    /\ stt_text' = t
    /\ UNCHANGED <<capVars, vuVars, history, history_list, now, log, utts,
                   uiVars, ttsVars, spVars>>

(* --------------------------- level meter tick --------------------------- *)
RECURSIVE IsqrtIn(_, _, _)
IsqrtIn(n, lo, hi) ==
    IF lo >= hi THEN lo
    ELSE LET mid == (lo + hi + 1) \div 2
         IN IF mid * mid <= n THEN IsqrtIn(n, mid, hi) ELSE IsqrtIn(n, lo, mid - 1)

\* audioop.rms(data, 2): the truncated square root of the mean square.
RECURSIVE SumSq(_)
SumSq(f) == IF f = <<>> THEN 0 ELSE Head(f) * Head(f) + SumSq(Tail(f))

rms(f) == IsqrtIn(SumSq(f) \div Len(f), 0, 32768)

\* Frames the stream can deliver: silence, a quiet tone, a full-scale square wave.
Frames == {<<0, 0>>, <<300, -300>>, <<32767, -32768>>}

\* Frames for the level meter alone: square waves of every amplitude 300 * k
\* up to beyond saturation, amplitudes just below a step of the scale,
\* a longer and a one-sided frame.
VuFrames ==
    Frames \cup {<<300 * k, -(300 * k)>> : k \in 0..102}
           \cup {<<299, -299>>, <<29999, -29999>>, <<30299, -30299>>}
           \cup {<<0, 0, 0, 0>>, <<0, 32767>>, <<20000, -20000, 20000, -20000>>}

\* update_vu_level with the saturation at 100 left out.
update_vu_level_unsaturated(read_ok, frame) ==
    /\ vu_level' = IF ~vu_stream THEN 0
                   ELSE IF ~read_ok THEN 0
                   ELSE rms(frame) \div VuDivisor
    /\ UNCHANGED <<capVars, vu_audio, vu_stream, vu_timer, resVars>>
    /\ UNCHANGED <<uiVars, ttsVars, spVars>>

\* update_vu_level(): read_ok is whether vu_stream.read and audioop.rms
\* returned, frame the samples read.
update_vu_level(read_ok, frame) ==
    /\ vu_level' = IF ~vu_stream THEN 0
                   ELSE IF ~read_ok THEN 0
                   ELSE Min(VuMax, rms(frame) \div VuDivisor)
    /\ UNCHANGED <<capVars, vu_audio, vu_stream, vu_timer, resVars>>
    /\ UNCHANGED <<uiVars, ttsVars, spVars>>

\* vu_timer.timeout: the slot runs every 100 ms while the timer is active.
TimerTick(read_ok, frame) ==
    /\ vu_timer
    /\ update_vu_level(read_ok, frame)

(* ------------------------------ synthesis ------------------------------ *)
\* Contents of the tts_text widget, as sequences of characters.
RawTexts ==
    {<<>>, <<" ">>, <<"\t", "\n">>, <<"\r", "\f">>, <<"U+3000">>, <<"U+00A0", "U+000B">>,
     <<"a">>, <<" ", "a", "\n">>, <<"\r", "a", "U+3000">>}

\* No stripping at all.
strip_nothing(t) == t

\* str.strip(): leading and trailing whitespace removed.
RECURSIVE lstrip(_)
lstrip(t) == IF t # <<>> /\ IsSpace(Head(t)) THEN lstrip(Tail(t)) ELSE t

RECURSIVE rstrip(_)
rstrip(t) ==
    IF t # <<>> /\ IsSpace(t[Len(t)]) THEN rstrip(SubSeq(t, 1, Len(t) - 1)) ELSE t

strip(t) == rstrip(lstrip(t))

\* play_tts that leaves the Play and Save buttons enabled.
play_tts_buttons_left_enabled(raw, save_only, target_chosen) ==
    /\ UNCHANGED <<stt_stop, btn_start, btn_stop, stt_status, stt_progress,
                   nsess, pc, running, mic_open, cur, tres, tstamp,
                   vuVars, resVars, uiVars, spVars>>
    /\ IF strip(raw) = <<>>
       THEN /\ dialog' = "enter_text"
            /\ UNCHANGED ttsVars
       ELSE IF save_only /\ ~target_chosen
       THEN /\ dialog' = "none"
            /\ UNCHANGED ttsVars
       ELSE /\ Len(workers) < MaxWorkers
            /\ dialog' = "none"
            /\ tts_status' = "preparing"
            /\ tts_progress' = TRUE
            /\ UNCHANGED <<btn_play, btn_save_mp3>>
            /\ should_play' = ~save_only
            /\ workers' = Append(workers, [text |-> strip(raw), save |-> save_only,
                                           pc |-> "started"])
            /\ UNCHANGED <<ui_queue, playing>>

\* play_tts(save_only): raw is tts_text.toPlainText(), target_chosen whether
\* the save dialog returned a path (it is shown only when save_only).
play_tts(raw, save_only, target_chosen) ==
    /\ UNCHANGED <<stt_stop, btn_start, btn_stop, stt_status, stt_progress,
                   nsess, pc, running, mic_open, cur, tres, tstamp,
                   vuVars, resVars, uiVars, spVars>>
    /\ IF strip(raw) = <<>>
       THEN /\ dialog' = "enter_text"
            /\ UNCHANGED ttsVars
       ELSE IF save_only /\ ~target_chosen
       THEN /\ dialog' = "none"
            /\ UNCHANGED ttsVars
       ELSE /\ Len(workers) < MaxWorkers
            /\ dialog' = "none"
            /\ tts_status' = "preparing"
            /\ tts_progress' = TRUE
            /\ btn_play' = FALSE
            /\ btn_save_mp3' = FALSE
            /\ should_play' = ~save_only
            \* TTSWorker(text, ...).start()
            /\ workers' = Append(workers, [text |-> strip(raw), save |-> save_only,
                                           pc |-> "started"])
            /\ UNCHANGED <<ui_queue, playing>>

\* btn_play.clicked and btn_save_mp3.clicked: a disabled button emits nothing,
\* and no click reaches the window while a handler or a modal box is running.
ClickPlay(raw) ==
    /\ UiIdle
    /\ btn_play
    /\ play_tts(raw, FALSE, FALSE)

ClickSave(raw, target_chosen) ==
    /\ UiIdle
    /\ btn_save_mp3
    /\ play_tts(raw, TRUE, target_chosen)

\* TTSWorker.run, line 61: status.emit("...").  Signals of a worker thread
\* reach the slots of the window through the UI thread's event queue.
WorkerBegin(w) ==
    /\ w \in DOMAIN workers
    /\ workers[w].pc = "started"
    /\ workers' = [workers EXCEPT ![w].pc = "running"]
    /\ ui_queue' = Append(ui_queue, <<w, "status_synth">>)
    /\ UNCHANGED <<capVars, vuVars, resVars, uiVars, spVars,
                   btn_play, btn_save_mp3, tts_status, tts_progress, should_play, playing>>

\* TTSWorker.run, lines 62-75: synthesis, speed and volume, the exports, and
\* playback_ready.emit(tmp_wav.name).
WorkerReady(w) ==
    /\ w \in DOMAIN workers
    /\ workers[w].pc = "running"
    /\ workers' = [workers EXCEPT ![w].pc = "ready"]
    /\ ui_queue' = Append(ui_queue, <<w, "playback_ready">>)
    /\ UNCHANGED <<capVars, vuVars, resVars, uiVars, spVars,
                   btn_play, btn_save_mp3, tts_status, tts_progress, should_play, playing>>

\* TTSWorker.run, the end of the try block: finished.emit (line 77) once
\* playback_ready is out, or error.emit (line 79) for an exception raised
\* anywhere in the block, before or after playback_ready.
WorkerEnd(w, ok) ==
    /\ w \in DOMAIN workers
    /\ IF ok THEN workers[w].pc = "ready" ELSE workers[w].pc \in {"running", "ready"}
    /\ workers' = [workers EXCEPT ![w].pc = "finally"]
    /\ ui_queue' = Append(ui_queue, <<w, IF ok THEN "finished" ELSE "error">>)
    /\ UNCHANGED <<capVars, vuVars, resVars, uiVars, spVars,
                   btn_play, btn_save_mp3, tts_status, tts_progress, should_play, playing>>

\* TTSWorker.run, the finally clause: status.emit(""), and the thread ends.
WorkerFinally(w) ==
    /\ w \in DOMAIN workers
    /\ workers[w].pc = "finally"
    /\ workers' = [workers EXCEPT ![w].pc = "finished"]
    /\ ui_queue' = Append(ui_queue, <<w, "status_clear">>)
    /\ UNCHANGED <<capVars, vuVars, resVars, uiVars, spVars,
                   btn_play, btn_save_mp3, tts_status, tts_progress, should_play, playing>>

\* on_playback_ready(wav_path)
on_playback_ready(w) ==
    /\ playing' = IF should_play THEN w ELSE playing
    /\ UNCHANGED <<btn_play, btn_save_mp3, tts_status, tts_progress, should_play,
                   dialog, uiVars>>

\* on_tts_done(msg); the history entry quotes the text the widget holds now.
on_tts_done(raw) ==
    /\ tts_status' = "done"
    /\ tts_progress' = FALSE
    /\ btn_play' = TRUE
    /\ btn_save_mp3' = TRUE
    /\ add_history("TTS", strip(raw))
    /\ UNCHANGED <<should_play, playing, dialog>>

\* on_tts_error(msg), line 357: the critical box opens and runs the event loop.
on_tts_error ==
    /\ dialog' = "tts_error"
    /\ ui_pc' = "error_box"
    /\ UNCHANGED <<btn_play, btn_save_mp3, tts_status, tts_progress, should_play,
                   playing, ui_line>>

\* on_tts_error(msg), lines 358-361: the user has closed the box.
ErrorBoxClosed ==
    /\ ui_pc = "error_box"
    /\ ui_pc' = "idle"
    /\ tts_status' = "error"
    /\ tts_progress' = FALSE
    /\ btn_play' = TRUE
    /\ btn_save_mp3' = TRUE
    /\ UNCHANGED <<capVars, vuVars, resVars, ui_line, spVars,
                   should_play, workers, ui_queue, playing>>

\* The event loop delivers the oldest queued signal to its slot.  Inside the
\* box of on_tts_error the signals behind the error are delivered too; the
\* one worker that can be in flight has no finished or error left by then.
UiDeliver(raw) ==
    /\ ui_queue # <<>>
    /\ UiLoop
    /\ ui_queue' = Tail(ui_queue)
    /\ LET w == Head(ui_queue)[1]
           sig == Head(ui_queue)[2]
       IN CASE sig = "status_synth" ->
                 /\ tts_status' = "synthesizing"
                 /\ UNCHANGED <<btn_play, btn_save_mp3, tts_progress, should_play,
                                playing, dialog, uiVars>>
            [] sig = "status_clear" ->
                 /\ tts_status' = ""
                 /\ UNCHANGED <<btn_play, btn_save_mp3, tts_progress, should_play,
                                playing, dialog, uiVars>>
            [] sig = "playback_ready" -> on_playback_ready(w)
            [] sig = "finished" -> UiIdle /\ on_tts_done(raw)
            [] sig = "error" -> UiIdle /\ on_tts_error
    /\ UNCHANGED <<stt_stop, btn_start, btn_stop, stt_status, stt_progress,
                   nsess, pc, running, mic_open, cur, tres, tstamp, vuVars,
                   resVars, workers, spVars>>

(* ------------------------ floating-point numbers ------------------------ *)
\* A Python float (IEEE 754 double) that is positive and normal: m is its
\* significand as a sequence of bits, most significant first and leading 1,
\* and e the weight of the last bit: the value is m * 2^e.
FloatBits == 53       \* bits of the significand of a double

AnyOne(b) == \E i \in 1..Len(b) : b[i] = 1

\* Long numbers are handled a few bits at a time.
Chunk == 13

\* The number a sequence of at most 31 bits is the binary form of.
RECURSIVE BitsToInt(_)
BitsToInt(b) ==
    IF b = <<>> THEN 0
    ELSE IF Len(b) = 1 THEN b[1]
    ELSE LET h == Len(b) \div 2
         IN BitsToInt(SubSeq(b, 1, h)) * 2^(Len(b) - h)
              + BitsToInt(SubSeq(b, h + 1, Len(b)))

\* The last w binary digits of v.
IntBits(v, w) == [i \in 1..w |-> (v \div 2^(w - i)) % 2]

\* b without its leading zeros.
StripZeros(b) ==
    IF AnyOne(b)
    THEN LET k == CHOOSE i \in 1..Len(b) :
                      b[i] = 1 /\ \A j \in 1..(i - 1) : b[j] = 0
         IN SubSeq(b, k, Len(b))
    ELSE <<>>

\* The binary digits of n (below 2^31), <<>> for 0.
ToBits(n) == StripZeros(IntBits(n, 31))

\* b with zeros in front, w bits in all.
Pad(b, w) ==
    [i \in 1..w |-> IF i <= w - Len(b) THEN 0 ELSE b[i - (w - Len(b))]]

\* b + 1; one bit longer when b is all ones.
Inc(b) ==
    IF \E i \in 1..Len(b) : b[i] = 0
    THEN LET k == CHOOSE i \in 1..Len(b) :
                      b[i] = 0 /\ \A j \in (i + 1)..Len(b) : b[j] = 1
         IN [i \in 1..Len(b) |-> IF i < k THEN b[i] ELSE IF i = k THEN 1 ELSE 0]
    ELSE <<1>> \o [i \in 1..Len(b) |-> 0]

\* The double nearest to bits * 2^e (plus something below the last bit when
\* sticky), ties to the even significand.
RoundToFloat(bits, sticky, e) ==
    IF Len(bits) <= FloatBits THEN [m |-> bits, e |-> e]
    ELSE LET keep == SubSeq(bits, 1, FloatBits)
             guard == bits[FloatBits + 1]
             rest == AnyOne(SubSeq(bits, FloatBits + 2, Len(bits))) \/ sticky
             up == guard = 1 /\ (rest \/ keep[FloatBits] = 1)
             r == IF up THEN Inc(keep) ELSE keep
             drop == Len(bits) - FloatBits
         IN IF Len(r) > FloatBits
            THEN [m |-> SubSeq(r, 1, FloatBits), e |-> e + drop + 1]
            ELSE [m |-> r, e |-> e + drop]

\* n/d scaled by a power of two into [1, 2): <<n', d', exponent>>.
RECURSIVE Normalize(_, _, _)
Normalize(n, d, e) ==
    IF n >= 2 * d THEN Normalize(n, 2 * d, e + 1)
    ELSE IF n < d THEN Normalize(2 * n, d, e - 1)
    ELSE <<n, d, e>>

\* The first k binary digits of rem/d (rem < d) and the remainder after them.
RECURSIVE Quot(_, _, _)
Quot(rem, d, k) ==
    IF k = 0 THEN [q |-> <<>>, r |-> rem]
    ELSE LET w == Min(Chunk, k)
             t == rem * 2^w
             rest == Quot(t % d, d, k - w)
         IN [q |-> IntBits(t \div d, w) \o rest.q, r |-> rest.r]

\* float("n/d" written as a decimal): the double nearest to n/d.
ToFloat(n, d) ==
    LET z == Normalize(n, d, 0)
        x == Quot(z[1] - z[2], z[2], FloatBits)
    IN RoundToFloat(<<1>> \o x.q, x.r # 0, z[3] - FloatBits)

\* bits * r + carry, for an integer r.
RECURSIVE MulBits(_, _, _)
MulBits(b, r, carry) ==
    IF b = <<>> THEN ToBits(carry)
    ELSE LET w == Min(Chunk, Len(b))
             t == BitsToInt(SubSeq(b, Len(b) - w + 1, Len(b))) * r + carry
         IN MulBits(SubSeq(b, 1, Len(b) - w), r, t \div 2^w)
              \o IntBits(t % 2^w, w)

\* r * f for a positive int r below 2^17: the product rounded to a double.
FloatMulInt(r, f) == RoundToFloat(MulBits(f.m, r, 0), FALSE, f.e)

\* a < b, for sequences of bits of the same length.
Less(a, b) ==
    \E i \in 1..Len(a) : a[i] < b[i] /\ \A j \in 1..(i - 1) : a[j] = b[j]

\* a - b, for sequences of bits of the same length with a >= b: a digit
\* borrows when the digits after it are less in a than in b.
SubBits(a, b) ==
    [i \in 1..Len(a) |->
        LET borrow == IF Less(SubSeq(a, i + 1, Len(a)), SubSeq(b, i + 1, Len(b)))
                      THEN 1 ELSE 0
        IN (a[i] - b[i] - borrow + 2) % 2]

\* Long division by the significand m of a double, Chunk binary digits at a
\* time, on numbers of DivWidth bits: k more chunks of the quotient and the
\* last remainder, from remainder rem.  A chunk is estimated from the leading
\* bits of the shifted remainder and of m, which leaves two or three
\* candidates, and settled by multiplying back.
DivWidth == FloatBits + Chunk + 2
DivTop == DivWidth - 36

RECURSIVE DivChunks(_, _, _)
DivChunks(rem, m, k) ==
    IF k = 0 THEN [q |-> <<>>, r |-> rem]
    ELSE LET a == SubSeq(rem, Chunk + 1, DivWidth) \o [i \in 1..Chunk |-> 0]
             a_top == BitsToInt(SubSeq(a, 1, DivTop))
             m_top == BitsToInt(SubSeq(Pad(m, DivWidth), 1, DivTop))
             times(n) == Pad(MulBits(m, n, 0), DivWidth)
             q == CHOOSE c \in (a_top \div (m_top + 1))..((a_top + 1) \div m_top) :
                      ~Less(a, times(c)) /\ Less(a, times(c + 1))
             rest == DivChunks(SubBits(a, times(q)), m, k - 1)
         IN [q |-> IntBits(q, Chunk) \o rest.q, r |-> rest.r]

\* 1 / f, rounded to a double: 2^(FloatBits - 2 + 5 * Chunk) divided by the
\* significand; the first FloatBits - 2 digits of that quotient are 0 and
\* leave the remainder 2^(FloatBits - 2).
FloatInv(f) ==
    LET start == [i \in 1..DivWidth |-> IF i = DivWidth - (FloatBits - 2) THEN 1 ELSE 0]
        x == DivChunks(start, f.m, 5)
    IN RoundToFloat(StripZeros(x.q), AnyOne(x.r),
                    0 - (FloatBits - 2 + 5 * Chunk) - f.e)

\* int(f): the integer part.
FloatTrunc(f) ==
    LET k == Len(f.m) + f.e
    IN IF f.e >= 0 THEN BitsToInt(f.m) * 2^(f.e)
       ELSE IF k <= 0 THEN 0
       ELSE BitsToInt(SubSeq(f.m, 1, k))

(* ----------------------------- speed_change ----------------------------- *)
\* Frame rates of segments, and factors <<num, den>>: the Python float
\* nearest to num/den.  The five of the speed combo box (0.5, 1, 1.5, 2,
\* 2.5) and others, with and without an exact binary form, below 1 / rate
\* and above the rate.
Rates == {8000, 11025, 16000, 22050, 24000, 44100, 48000}
Factors == {<<1, 2>>, <<1, 1>>, <<3, 2>>, <<2, 1>>, <<5, 2>>,
            <<1, 4>>, <<5, 8>>, <<7, 8>>, <<1, 32768>>,
            <<7, 5>>, <<11, 10>>, <<1, 10>>, <<7, 10>>, <<1, 3>>, <<3, 7>>,
            <<13, 10>>, <<99, 100>>, <<10000, 1>>, <<40000, 1>>}

\* segment._spawn(raw_data, overrides={"frame_rate": r}): same data, new label.
spawn(seg, r) == [seg EXCEPT !.frame_rate = r]

\* AudioSegment.set_frame_rate(r): the same segment when the rate is already
\* r; otherwise, when the segment has data, audioop.ratecv resamples it from
\* the segment's rate to r, which raises when either rate is not positive (a
\* segment without data is not resampled); the result is labelled r.
set_frame_rate(seg, r) ==
    IF r = seg.frame_rate THEN seg
    ELSE IF ~seg.empty /\ (seg.frame_rate <= 0 \/ r <= 0) THEN [seg EXCEPT !.ok = FALSE]
    ELSE [seg EXCEPT !.frame_rate = r]

\* new_sr = int(segment.frame_rate * factor), for a float factor: the product
\* is rounded to a double and then truncated.
new_sr(seg, factor) == FloatTrunc(FloatMulInt(seg.frame_rate, factor))

\* speed_change(segment, factor)
speed_change(seg, factor) ==
    set_frame_rate(spawn(seg, new_sr(seg, factor)), seg.frame_rate)

\* speed_change(segment, f) with the float f of sp_factor.
SpeedApply ==
    /\ sp_calls = 0
    /\ LET f == ToFloat(sp_factor[1], sp_factor[2])
       IN /\ sp_new_sr' = new_sr(sp_seg, f)
          /\ sp_seg' = speed_change(sp_seg, f)
    /\ sp_calls' = 1
    /\ UNCHANGED <<capVars, vuVars, resVars, uiVars, ttsVars, sp_factor, sp_orig>>

\* speed_change(result, 1 / f)
SpeedApplyInverse ==
    /\ sp_calls = 1
    /\ sp_seg.ok
    /\ LET g == FloatInv(ToFloat(sp_factor[1], sp_factor[2]))
       IN /\ sp_new_sr' = new_sr(sp_seg, g)
          /\ sp_seg' = speed_change(sp_seg, g)
    /\ sp_calls' = 2
    /\ UNCHANGED <<capVars, vuVars, resVars, uiVars, ttsVars, sp_factor, sp_orig>>

(* ----------------------------- specification ---------------------------- *)
InitCapture ==
    /\ stt_stop = 0
    /\ btn_start = TRUE
    /\ btn_stop = FALSE
    /\ stt_status = ""
    /\ stt_progress = FALSE
    /\ dialog = "none"
    /\ nsess = 0
    /\ pc = [s \in Threads |-> "none"]
    /\ running = [s \in Threads |-> FALSE]
    /\ mic_open = [s \in Threads |-> FALSE]
    /\ cur = [s \in Threads |-> 0]
    /\ tres = [s \in Threads |-> NoResult]
    /\ tstamp = [s \in Threads |-> 0]
    /\ vu_audio = FALSE
    /\ vu_stream = FALSE
    /\ vu_timer = FALSE
    /\ vu_level = VuUnset
    /\ stt_text = <<>>
    /\ history = <<>>
    /\ history_list = <<>>
    /\ now = 0
    /\ ui_pc = "idle"
    /\ ui_line = <<>>
    /\ log = <<>>
    /\ utts = <<>>

InitTts ==
    /\ btn_play = TRUE
    /\ btn_save_mp3 = TRUE
    /\ tts_status = ""
    /\ tts_progress = FALSE
    /\ should_play = TRUE
    /\ workers = <<>>
    /\ ui_queue = <<>>
    /\ playing = 0

InitSp(rates, factors, empties) ==
    /\ sp_orig \in rates
    /\ sp_seg \in {[frame_rate |-> sp_orig, empty |-> e, ok |-> TRUE] : e \in empties}
    /\ sp_factor \in factors
    /\ sp_new_sr = 0
    /\ sp_calls = 0

Init == InitCapture /\ InitTts /\ InitSp({24000}, {<<1, 1>>}, {FALSE})

StartInputs ==
    {<<NoMic, TRUE, "ok">>, <<0, FALSE, "ok">>, <<0, TRUE, "ok">>,
     <<0, TRUE, "init_fail">>, <<0, TRUE, "open_fail">>}

\* btn_start.clicked and btn_stop.clicked: a disabled button emits nothing.
ClickStart(i) == UiIdle /\ btn_start /\ start_recording(i[1], i[2], i[3])

ClickStop == UiIdle /\ btn_stop /\ stop_recording

\* btn_copy_stt.clicked, as long as the run has fewer than `limit` UI entries.
UiCopy(limit) == UiIdle /\ UiEntries < limit /\ copy_stt_text

ClickExport(target_chosen, written) == UiIdle /\ export_texts(target_chosen, written)

UserEdit(t) == UiIdle /\ t # stt_text /\ EditSttText(t)

Tick(read_ok, frame) == UiLoop /\ TimerTick(read_ok, frame)

\* The whole program.
Next ==
    \/ \E i \in StartInputs : ClickStart(i)
    \/ ClickStop
    \/ \E s \in Threads, ok \in BOOLEAN : ThreadOpen(s, ok)
    \/ \E s \in Threads : ThreadListen(s)
    \/ \E s \in Threads : ThreadExit(s)
    \/ \E s \in Threads, res \in Results, d \in 0..MaxClock : Recognize(s, res, d)
    \/ \E s \in Threads, shown \in BOOLEAN : AppendPlainText(s, shown)
    \/ \E s \in Threads : ThreadStamp(s)
    \/ \E s \in Threads : ThreadAppendLeft(s)
    \/ \E s \in Threads, effect \in BOOLEAN : ThreadClear(s, effect)
    \/ \E s \in Threads, effect \in BOOLEAN : ThreadAddItems(s, effect)
    \/ \E ok \in BOOLEAN, f \in Frames : Tick(ok, f)
    \/ UiCopy(MaxCopies)
    \/ UiAppendLeft
    \/ UiClear
    \/ UiAddItems
    \/ \E chosen, written \in BOOLEAN : ClickExport(chosen, written)
    \/ \E t \in Edits : UserEdit(t)
    \/ \E raw \in RawTexts : ClickPlay(raw)
    \/ \E raw \in RawTexts, chosen \in BOOLEAN : ClickSave(raw, chosen)
    \/ \E w \in 1..MaxWorkers : WorkerBegin(w)
    \/ \E w \in 1..MaxWorkers : WorkerReady(w)
    \/ \E w \in 1..MaxWorkers, ok \in BOOLEAN : WorkerEnd(w, ok)
    \/ \E w \in 1..MaxWorkers : WorkerFinally(w)
    \/ \E raw \in RawTexts : UiDeliver(raw)
    \/ ErrorBoxClosed
    \/ SpeedApply
    \/ SpeedApplyInverse

Spec == Init /\ [][Next]_vars

\* The capture side with every handler that touches its state, and a backend
\* that answers at once: the synthesis buttons are not clicked and
\* speed_change is not called.
NextCap ==
    \/ \E i \in StartInputs : ClickStart(i)
    \/ ClickStop
    \/ \E s \in Threads, ok \in BOOLEAN : ThreadOpen(s, ok)
    \/ \E s \in Threads : ThreadListen(s)
    \/ \E s \in Threads : ThreadExit(s)
    \/ \E s \in Threads, res \in Results : Recognize(s, res, 0)
    \/ \E s \in Threads, shown \in BOOLEAN : AppendPlainText(s, shown)
    \/ \E s \in Threads : ThreadStamp(s)
    \/ \E s \in Threads : ThreadAppendLeft(s)
    \/ \E s \in Threads, effect \in BOOLEAN : ThreadClear(s, effect)
    \/ \E s \in Threads, effect \in BOOLEAN : ThreadAddItems(s, effect)
    \/ \E ok \in BOOLEAN, f \in Frames : Tick(ok, f)
    \/ UiCopy(MaxCopies)
    \/ UiAppendLeft
    \/ UiClear
    \/ UiAddItems
    \/ \E chosen, written \in BOOLEAN : ClickExport(chosen, written)
    \/ \E t \in Edits : UserEdit(t)

SpecCap == Init /\ [][NextCap]_vars

\* The handlers and threads that add to the history while sessions run, with
\* a backend that takes its time: the level meter's timer does not tick,
\* nothing is exported and the text is not edited by hand.
NextHist ==
    \/ \E i \in StartInputs : ClickStart(i)
    \/ ClickStop
    \/ \E s \in Threads, ok \in BOOLEAN : ThreadOpen(s, ok)
    \/ \E s \in Threads : ThreadListen(s)
    \/ \E s \in Threads : ThreadExit(s)
    \/ \E s \in Threads, res \in Results, d \in 0..MaxClock : Recognize(s, res, d)
    \/ \E s \in Threads, shown \in BOOLEAN : AppendPlainText(s, shown)
    \/ \E s \in Threads : ThreadStamp(s)
    \/ \E s \in Threads : ThreadAppendLeft(s)
    \/ \E s \in Threads, effect \in BOOLEAN : ThreadClear(s, effect)
    \/ \E s \in Threads, effect \in BOOLEAN : ThreadAddItems(s, effect)
    \/ UiCopy(MaxCopies)
    \/ UiAppendLeft
    \/ UiClear
    \/ UiAddItems

SpecHist == Init /\ [][NextHist]_vars

\* The synthesis side alone.
NextTts ==
    \/ \E raw \in RawTexts : ClickPlay(raw)
    \/ \E raw \in RawTexts, chosen \in BOOLEAN : ClickSave(raw, chosen)
    \/ \E w \in 1..MaxWorkers : WorkerBegin(w)
    \/ \E w \in 1..MaxWorkers : WorkerReady(w)
    \/ \E w \in 1..MaxWorkers, ok \in BOOLEAN : WorkerEnd(w, ok)
    \/ \E w \in 1..MaxWorkers : WorkerFinally(w)
    \/ \E raw \in RawTexts : UiDeliver(raw)
    \/ ErrorBoxClosed
    \/ UiAppendLeft
    \/ UiClear
    \/ UiAddItems

SpecTts == Init /\ [][NextTts]_vars

\* The methods of the capture session called directly, in any order and
\* whatever the buttons show (the window itself calls them only through the
\* clicked signals of enabled buttons), with the listener threads and the
\* timer.
CallStart(i) == start_recording(i[1], i[2], i[3])

CallStop == stop_recording

NextCalls ==
    \/ \E i \in StartInputs : CallStart(i)
    \/ CallStop
    \/ \E s \in Threads, ok \in BOOLEAN : ThreadOpen(s, ok)
    \/ \E s \in Threads : ThreadListen(s)
    \/ \E s \in Threads : ThreadExit(s)
    \/ \E s \in Threads, res \in Results : Recognize(s, res, 0)
    \/ \E s \in Threads, shown \in BOOLEAN : AppendPlainText(s, shown)
    \/ \E s \in Threads : ThreadStamp(s)
    \/ \E s \in Threads : ThreadAppendLeft(s)
    \/ \E s \in Threads, effect \in BOOLEAN : ThreadClear(s, effect)
    \/ \E s \in Threads, effect \in BOOLEAN : ThreadAddItems(s, effect)
    \/ \E ok \in BOOLEAN, f \in Frames : Tick(ok, f)

SpecCalls == Init /\ [][NextCalls]_vars

\* The level meter alone: its three methods called in any order, the slot
\* also when the timer is not running.
VuStart(device_index, outcome) ==
    /\ start_vu_meter(device_index, outcome)
    /\ UNCHANGED <<capVars, resVars, uiVars, ttsVars, spVars>>

VuStop ==
    /\ stop_vu_meter
    /\ UNCHANGED <<capVars, resVars, uiVars, ttsVars, spVars>>

NextVu ==
    \/ \E d \in {NoMic, 0}, o \in {"ok", "init_fail", "open_fail"} : VuStart(d, o)
    \/ VuStop
    \/ \E ok \in BOOLEAN, f \in VuFrames : update_vu_level(ok, f)

SpecVu == Init /\ [][NextVu]_vars

\* speed_change on every rate and factor of the bounded sets.
InitSpeed == InitCapture /\ InitTts /\ InitSp(Rates, Factors, BOOLEAN)

NextSpeed == SpeedApply \/ SpeedApplyInverse

SpecSpeed == InitSpeed /\ [][NextSpeed]_vars

(* ================================ claims ================================ *)

\* Streams open on the device for the session whose stopper is held: the
\* listener's microphone stream and the level meter's stream.
StreamsOfSession ==
    (IF stt_stop # 0 /\ mic_open[stt_stop] THEN 1 ELSE 0) + (IF vu_stream THEN 1 ELSE 0)

\* Where a listener thread is while it runs the callback.
InCallback == {"callback", "append", "add_history", "appendleft", "clear", "additems"}

\* Where it is before its entry is in self.history.
BeforeEntry == {"callback", "append", "add_history", "appendleft"}

\* C1: while a capture session is on and its listener is capturing, exactly one
\* physical input stream is open on the device; the level meter shares it and
\* opens none of its own.
C1_OneStreamPerSession ==
    (stt_stop # 0 /\ pc[stt_stop] \in {"listen"} \cup InCallback) => StreamsOfSession = 1

\* C2: the stream of a stopped session and the stream of a session started
\* after it are never open at the same time.
C2_ReleasedBeforeRestart ==
    \A s, t \in Threads : (s < t /\ mic_open[t]) => ~mic_open[s]

\* The kind of outcome the claim assigns to what the backend did.
ExpectedKind(exc) ==
    CASE exc = "none" -> "Recognized"
      [] exc = "UnknownValueError" -> "Inaudible"
      [] exc = "RequestError" -> "ServiceUnavailable"
      [] exc = "Other" -> "Failed"

EntriesOf(u) == {i \in 1..Len(log) : log[i].utt = u}

\* Every utterance has one history entry once its callback is past the
\* appendleft of add_history, none before, and the entry is of the kind that
\* matches what the backend did.
OneEntryEach ==
    \A u \in DOMAIN utts :
        /\ Cardinality(EntriesOf(u)) = IF utts[u].done THEN 1 ELSE 0
        /\ (\A s \in Threads : cur[s] # u) => utts[u].done
        /\ \A i \in EntriesOf(u) :
             /\ log[i].kind = ExpectedKind(utts[u].exc)
             /\ log[i].kind = "Recognized" => log[i].text \in Transcripts
             /\ log[i].kind = "Failed" => log[i].text \in Messages

C5_StopDoesNotCancel ==
    [][/\ stop_recording => (pc' = pc /\ cur' = cur /\ tres' = tres /\ log' = log)
       /\ \A s \in Threads :
            /\ pc[s] \in BeforeEntry =>
                  \/ pc'[s] \in BeforeEntry /\ cur'[s] = cur[s]
                  \/ /\ pc'[s] \in InCallback /\ cur'[s] = cur[s]
                     /\ Len(log') = Len(log) + 1
                     /\ log'[Len(log')].utt = cur[s]
                     /\ log'[Len(log')].kind = ExpectedKind(tres[s].exc)
                     /\ history'[1] = log'[Len(log')]
            /\ pc[s] \in InCallback \ BeforeEntry =>
                  /\ \E i \in 1..Len(log') : log'[i].utt = cur[s]
                  /\ pc'[s] \in InCallback => cur'[s] = cur[s]]_vars

\* a request that was in flight when stop_recording was called has delivered
\* and its callback has returned
C5_Witness ==
    \E u \in DOMAIN utts :
        /\ utts[u].stopped /\ utts[u].done
        /\ \A s \in Threads : cur[s] # u
        /\ stt_stop = 0
        /\ \E i \in 1..Len(history) : history[i].utt = u

\* C6: a listener that has handed an utterance to the callback goes on
\* capturing while the recognition of that utterance is pending.
C6_CaptureNeverBlocks ==
    \A s \in Threads : (mic_open[s] /\ cur[s] # 0) => pc[s] = "listen"

\* C8: when the device of a session could not be opened (and nobody has called
\* stop_recording since), the session is closed: no listener handle is held, no
\* level-meter stream or timer runs, Start is enabled and Stop disabled.
C8_OpenFailureLeavesSessionClosed ==
    \A s \in Threads :
        (pc[s] = "dead" /\ running[s]) =>
            (stt_stop = 0 /\ ~vu_stream /\ ~vu_timer /\ btn_start /\ ~btn_stop)

\* The state stop_recording leaves.
ClosedSession ==
    /\ stt_stop = 0
    /\ ~vu_audio /\ ~vu_stream /\ ~vu_timer /\ vu_level = 0
    /\ btn_start /\ ~btn_stop

\* C9: stop_recording always ends in the closed state (no listener handle, no
\* level-meter stream, timer stopped, level 0, Start enabled, Stop disabled),
\* also with no session started; called in the state a stop_recording left, it
\* changes nothing.
C9_StopIdempotent ==
    [][stop_recording =>
         /\ ClosedSession'
         /\ (ClosedSession /\ stt_status = "stopped" /\ ~stt_progress) =>
               UNCHANGED <<stt_stop, btn_start, btn_stop, stt_status, stt_progress,
                           nsess, pc, running, mic_open, cur, tres, tstamp, vuVars,
                           stt_text, history, history_list, uiVars, ttsVars>>]_vars

\* a session was started and stopped: the state a second stop_recording meets
C9_Witness ==
    /\ nsess > 0
    /\ ClosedSession
    /\ stt_status = "stopped"
    /\ \E s \in Threads : pc[s] # "none" /\ ~running[s]

Done == {u \in DOMAIN utts : utts[u].done}

\* C4: the utterances whose outcome add_history has recorded gave one outcome
\* each, none lost, whatever the order the results arrived in and whatever the
\* UI thread added in between, and each outcome carries the started_at of its
\* utterance (here the latest it can be: the time the phrase was handed to the
\* callback), by which it is identified.
C4_OutcomesCarryStartedAt ==
    /\ Cardinality({i \in 1..Len(log) : log[i].utt # 0}) = Cardinality(Done)
    /\ \A u \in Done :
         \E i \in 1..Len(log) :
            /\ EntriesOf(u) = {i}
            /\ log[i].stamp = utts[u].started_at

\* Empty or only whitespace, as the claim puts it.
Blank(raw) == \A i \in 1..Len(raw) : raw[i] \in Whitespace

\* C7: a play_tts call whose text is empty or only whitespace starts no worker,
\* emits nothing towards the synthesis service, and leaves the Play and Save
\* buttons, the progress indicator and should_play as they were.
C7_BlankTextRejected ==
    [][\A raw \in RawTexts, save_only \in BOOLEAN, chosen \in BOOLEAN :
          (Blank(raw) /\ play_tts(raw, save_only, chosen)) =>
              /\ dialog' = "enter_text"
              /\ UNCHANGED <<workers, ui_queue, btn_play, btn_save_mp3,
                             tts_progress, should_play, tts_status, playing>>]_vars

\* a blank request was rejected after a job had finished: the buttons are
\* still enabled and the progress bar hidden
C7_Witness ==
    /\ dialog = "enter_text"
    /\ workers # <<>>
    /\ btn_play /\ btn_save_mp3 /\ ~tts_progress

\* round(n / d): to the nearest integer, halves to the even one.
RoundHalfEven(n, d) ==
    LET q == n \div d
        r == n % d
    IN IF 2 * r < d THEN q
       ELSE IF 2 * r > d THEN q + 1
       ELSE IF q % 2 = 0 THEN q ELSE q + 1

\* C10: every speed_change call, the first and the one that applies 1/factor
\* to its result, returns a segment labelled with the original rate, and the
\* first call relabels the audio at new_sr = round(rate * factor).
C10_RoundedRate ==
    /\ sp_calls >= 1 => (sp_seg.ok /\ sp_seg.frame_rate = sp_orig)
    /\ sp_calls = 1 => sp_new_sr = RoundHalfEven(sp_orig * sp_factor[1], sp_factor[2])

(* ------------------------------- C11 ----------------------------------- *)
AllZero(frame) == \A i \in 1..Len(frame) : frame[i] = 0

\* A square wave between the two extremes of a 16-bit sample.
FullScale(frame) == \A i \in 1..Len(frame) : frame[i] \in {32767, -32768}

\* C11: every call of start_vu_meter, stop_vu_meter or update_vu_level leaves
\* the meter at an integer level in [0,100]; a tick with no open stream or with
\* a failing read sets it to 0 and touches nothing else, a tick on an all-zero
\* frame gives 0 and a tick on a full-scale frame gives 100.
C11_LevelInRange ==
    [][/\ vu_level' \in 0..VuMax
       /\ \A ok \in BOOLEAN, f \in VuFrames :
             update_vu_level(ok, f) =>
                /\ (~vu_stream \/ ~ok) => vu_level' = 0
                /\ (vu_stream /\ ok /\ AllZero(f)) => vu_level' = 0
                /\ (vu_stream /\ ok /\ FullScale(f)) => vu_level' = VuMax
                /\ UNCHANGED <<vu_audio, vu_stream, vu_timer>>]_vars

\* a tick on a loud frame has driven the running meter to saturation
C11_Witness == vu_stream /\ vu_timer /\ vu_level = VuMax

(* ------------------------------- C12 ----------------------------------- *)
\* Worker w has been started and its run has emitted neither finished nor error.
InFlight(w) == workers[w].pc \in {"started", "running", "ready"}

\* The finished or error signal of worker w is emitted and not yet delivered.
EndQueued(w) ==
    \E i \in 1..Len(ui_queue) :
        ui_queue[i][1] = w /\ ui_queue[i][2] \in {"finished", "error"}

\* The number of finished and error signals of worker w in the queue.
EndSignals(w) ==
    Cardinality({i \in 1..Len(ui_queue) :
                    ui_queue[i][1] = w /\ ui_queue[i][2] \in {"finished", "error"}})

\* The job of worker w is not over for the window.
Busy(w) == InFlight(w) \/ EndQueued(w)

\* The error signal has reached on_tts_error, which has not returned yet.
InErrorSlot == ui_pc = "error_box"

\* C12: at most one TTSWorker is in flight; the Play and Save buttons are
\* disabled exactly from the start of a worker until the slot of its finished
\* or error signal, of which its run emits one, has enabled them; and
\* should_play is the flag of that worker until then, so that only a worker
\* started by Play is ever played.
C12_OneWorkerInFlight ==
    /\ Cardinality({w \in DOMAIN workers : Busy(w)}) <= 1
    /\ btn_play = ~(InErrorSlot \/ \E w \in DOMAIN workers : Busy(w))
    /\ btn_save_mp3 = btn_play
    /\ InErrorSlot => \A w \in DOMAIN workers : ~Busy(w)
    /\ \A w \in DOMAIN workers :
          /\ EndSignals(w) <= 1
          /\ InFlight(w) => EndSignals(w) = 0
          /\ Busy(w) => should_play = ~workers[w].save
    /\ playing # 0 => ~workers[playing].save

\* a second worker is in flight, started by Save, while the first one, which
\* was played, has not left its finally clause yet
C12_Witness ==
    /\ Len(workers) = 2
    /\ InFlight(2) /\ workers[2].save
    /\ workers[1].pc = "finally" /\ playing = 1
    /\ ~btn_play /\ ~btn_save_mp3 /\ ~should_play

====
